---------------------------- MODULE Spec2Model ----------------------------
(***************************************************************************)
(* Model of bot/exts/evergreen/youtube.py: the YouTubeSearch cog.          *)
(*                                                                         *)
(* Every invocation of the youtube command is a coroutine running on a     *)
(* single-threaded event loop.  The code between two awaited network calls *)
(* runs without interruption, so each action below is one such stretch:    *)
(* from the point where the coroutine is resumed (the command is           *)
(* dispatched, a response arrives) to the point where it suspends on the   *)
(* next HTTP request or ends.  Invocations of different users interleave   *)
(* at these points.  Reading the body of a response that has arrived       *)
(* (await response.json()) issues no request and changes nothing the code   *)
(* keeps, so it belongs to the stretch the response starts; so does        *)
(* handing the embed to ctx.send, the last statement of the command.       *)
(*                                                                         *)
(* Strings the code transforms (titles, channel names, the search text)    *)
(* are sequences of one-character strings, so that html.unescape,          *)
(* escape_markdown and quote_plus are modelled by what they do.            *)
(***************************************************************************)
EXTENDS Integers, Sequences, FiniteSets, TLC

\* Number of interleaved invocations of the command (one per user).
MaxInvocations == 2
\* Largest number of items a search response carries.
MaxItems == 2

Invocations == 1 .. MaxInvocations

\* HTTP status codes the provider answers with.
StatusOK == 200
Statuses == {StatusOK, 403, 503}

(***************************************************************************)
(* The provider.  Search items as the search endpoint returns them         *)
(* (items[].id.videoId, items[].snippet.title, .channelTitle), the         *)
(* statistics the details endpoint holds for each video id, and the        *)
(* rankings the provider answers searches with, of which a response        *)
(* carries the first page.                                                 *)
(***************************************************************************)
Item1 ==
    [id |-> [videoId |-> "abc123"],
     snippet |-> [title |-> <<"L", "o", "&", "a", "m", "p", ";", "C">>,
                  channelTitle |-> <<"B", "e", "a", "t", "s">>]]
Item2 ==
    [id |-> [videoId |-> "x_y"],
     snippet |-> [title |-> <<"*", "b", "_">>,
                  channelTitle |-> <<"&", "l", "t", ";", "b">>]]
Item3 ==
    [id |-> [videoId |-> "q7"],
     snippet |-> [title |-> <<"&", "a", "m", "p", ";", "l", "t", ";">>,
                  channelTitle |-> <<"~", "&", "#", "3", "9", ";">>]]

ProviderStatistics ==
    [v \in {"abc123", "x_y", "q7"} |->
        CASE v = "abc123" -> [viewCount |-> "100", likeCount |-> "10"]
          [] v = "x_y"    -> [viewCount |-> "7", likeCount |-> "0"]
          [] OTHER        -> [viewCount |-> "52", likeCount |-> "3"]]

Rankings ==
    { << >>,
      <<Item2>>,
      <<Item1, Item2>>,
      <<Item3, Item1, Item2>>,
      <<Item2, Item3, Item1>> }

Min(a, b) == IF a <= b THEN a ELSE b
Page(r) == SubSeq(r, 1, Min(Len(r), MaxItems))
ItemLists == { Page(r) : r \in Rankings }

\* The JSON body of a response whose status is not 200.
ErrorBody == [error |-> [message |-> "quotaExceeded"]]

\* JSON bodies of the search endpoint under status 200: well formed, or
\* without "items".
SearchBodies ==
    { [items |-> s] : s \in ItemLists } \cup { [kind |-> "unexpected"] }

\* JSON bodies of the details endpoint for video id under status 200: well
\* formed, with an empty item list, or with the like count left out.
StatsBodies(id) ==
    { [items |-> << [statistics |-> ProviderStatistics[id]] >>],
      [items |-> << >>],
      [items |-> << [statistics |-> [viewCount |-> ProviderStatistics[id].viewCount]] >>] }

\* What the two endpoints may answer.
Responses(bodies) ==
    { [status |-> st, body |-> ErrorBody] : st \in Statuses \ {StatusOK} }
    \cup { [status |-> StatusOK, body |-> b] : b \in bodies }
SearchResponses == Responses(SearchBodies)
StatsResponses(id) == Responses(StatsBodies(id))

\* The text a user searches for.
Digits == <<"1", "2", "3", "4">>
SearchTexts(p) == { <<"l", "o", " ", "f", "i", " ", Digits[p]>> }

VARIABLES
    pc,            \* where each invocation's coroutine stands
    search,        \* youtube: the search argument
    searchReceived, \* the search responses received (status, body decodable)
    items,         \* search_youtube: video_snippet["items"]
    idx,           \* search_youtube: position of the for loop (1-based)
    acc,           \* search_youtube: the local list results
    results,       \* youtube: results, what search_youtube returned
    openCtx,       \* response contexts entered and not yet exited
    statsIssued,   \* ids of the details requests issued, in order
    statsReceived, \* the details responses received, in order
    sent,          \* embeds passed to ctx.send
    log            \* records written to the logger

vars == <<pc, search, searchReceived, items, idx, acc, results, openCtx,
          statsIssued, statsReceived, sent, log>>

(***************************************************************************)
(* Values.                                                                 *)
(***************************************************************************)
\* A name no value is bound to yet.
Unbound == [unbound |-> TRUE]
\* Optional[...]: None, or a value.
NoneValue == [isNone |-> TRUE]
Some(v) == [isNone |-> FALSE, value |-> v]

Last(s) == s[Len(s)]
StartsWith(s, pre) == Len(s) >= Len(pre) /\ SubSeq(s, 1, Len(pre)) = pre
Drop(s, n) == SubSeq(s, n + 1, Len(s))

(***************************************************************************)
(* html.unescape: every character reference is replaced by its character,  *)
(* in one pass from the left (the replacement is not scanned again).       *)
(***************************************************************************)
Entities ==
    { [name |-> <<"&", "a", "m", "p", ";">>, char |-> "&"],
      [name |-> <<"&", "l", "t", ";">>, char |-> "<"],
      [name |-> <<"&", "g", "t", ";">>, char |-> ">"],
      [name |-> <<"&", "q", "u", "o", "t", ";">>, char |-> "\""],
      [name |-> <<"&", "#", "3", "9", ";">>, char |-> "'"] }

RECURSIVE Unescape(_)
Unescape(s) ==
    IF s = << >> THEN << >>
    ELSE LET m == { e \in Entities : StartsWith(s, e.name) }
         IN  IF m # {}
             THEN LET e == CHOOSE x \in m : TRUE
                  IN  <<e.char>> \o Unescape(Drop(s, Len(e.name)))
             ELSE <<Head(s)>> \o Unescape(Tail(s))

(***************************************************************************)
(* discord.utils.escape_markdown on a text with no link and no quote       *)
(* prefix: every markdown control character gets a backslash before it.    *)
(***************************************************************************)
MarkdownChars == {"_", "\\", "~", "|", "*"}

RECURSIVE EscapeMarkdown(_)
EscapeMarkdown(s) ==
    IF s = << >> THEN << >>
    ELSE (IF Head(s) \in MarkdownChars THEN <<"\\", Head(s)>> ELSE <<Head(s)>>)
         \o EscapeMarkdown(Tail(s))

\* urllib.parse.quote_plus on letters, digits and spaces.
RECURSIVE QuotePlus(_)
QuotePlus(s) ==
    IF s = << >> THEN << >>
    ELSE <<(IF Head(s) = " " THEN "+" ELSE Head(s))>> \o QuotePlus(Tail(s))

YOUTUBE_VIDEO_URL(id) == <<"https://www.youtube.com/watch?v=", id>>
YOUTUBE_SEARCH_URL(s) == <<"https://www.youtube.com/results?search_query=">> \o s

(***************************************************************************)
(* The dataclasses.                                                        *)
(***************************************************************************)
VideoStatistics(view_count, like_count) ==
    [view_count |-> view_count, like_count |-> like_count]

Video(title, username, id, video_statistics) ==
    [title |-> title, username |-> username, id |-> id,
     video_statistics |-> video_statistics]

(***************************************************************************)
(* format_search_result: the fields RESULT.format puts into one line.      *)
(***************************************************************************)
FormatSearchResult(index, result) ==
    [index |-> index,
     title |-> result.title,
     url |-> YOUTUBE_VIDEO_URL(result.id),
     username |-> result.username,
     view_count |-> result.video_statistics.view_count,
     like_count |-> result.video_statistics.like_count]

(***************************************************************************)
(* get_statistics, from the response on: absence on a status other than    *)
(* 200, a raised KeyError/IndexError on a body of another shape, and the   *)
(* VideoStatistics otherwise.                                              *)
(***************************************************************************)
\* Variant: only server errors count as failures.
NotSuccessful_ServerErrorsOnly(st) == st >= 500

NotSuccessful(st) == st # StatusOK

SearchDecodable(body) == "items" \in DOMAIN body

StatisticsDecodable(body) ==
    /\ "items" \in DOMAIN body
    /\ Len(body.items) >= 1
    /\ "statistics" \in DOMAIN body.items[1]
    /\ {"viewCount", "likeCount"} \subseteq DOMAIN body.items[1].statistics

GetStatistics(response) ==
    IF NotSuccessful(response.status)
    THEN [raised |-> FALSE, value |-> NoneValue]
    ELSE IF ~StatisticsDecodable(response.body)
    THEN [raised |-> TRUE, value |-> NoneValue]
    ELSE LET statistics == response.body.items[1].statistics
         IN  [raised |-> FALSE,
              value |-> Some(VideoStatistics(statistics.viewCount,
                                             statistics.likeCount))]

(***************************************************************************)
(* search_youtube.                                                         *)
(***************************************************************************)
\* Variant: reads the ranking from its end.
RequestedId_Reversed(its, i) == its[Len(its) + 1 - i].id.videoId

\* The id the details request of loop position i is issued for.
RequestedId(its, i) == its[i].id.videoId

\* The Video appended for item.
MakeVideo(item, video_statistics) ==
    Video(EscapeMarkdown(Unescape(item.snippet.title)),
          EscapeMarkdown(Unescape(item.snippet.channelTitle)),
          item.id.videoId,
          video_statistics)

\* Variant: a failed statistics call leaves the loop (break) and the list
\* built so far is returned.
LoopBody_KeepPartial(its, i, a, video_statistics) ==
    IF video_statistics.isNone
    THEN [returns |-> TRUE, value |-> Some(a), acc |-> a, next |-> i]
    ELSE LET r == Append(a, MakeVideo(its[i], video_statistics.value))
         IN  IF i < Len(its)
             THEN [returns |-> FALSE, value |-> NoneValue, acc |-> r, next |-> i + 1]
             ELSE [returns |-> TRUE, value |-> Some(r), acc |-> r, next |-> i]

\* Variant: a failed statistics call is remembered and the loop goes on to
\* the next item (continue); absence is returned after the last item.
LoopBody_DeferAbort(its, i, a, video_statistics) ==
    LET r == IF video_statistics.isNone
             THEN << >>
             ELSE Append(a, MakeVideo(its[i], video_statistics.value))
        \* a failure empties the list, which then stays shorter than i
        failed == video_statistics.isNone \/ Len(r) < i
    IN  IF i < Len(its)
        THEN [returns |-> FALSE, value |-> NoneValue, acc |-> r, next |-> i + 1]
        ELSE [returns |-> TRUE,
              value |-> IF failed THEN NoneValue ELSE Some(r),
              acc |-> r, next |-> i]

\* One pass of the for loop's body once get_statistics has returned
\* video_statistics for its[i], with a the list built so far: whether
\* search_youtube returns and what, the list, and the next loop position.
LoopBody(its, i, a, video_statistics) ==
    IF video_statistics.isNone
    THEN [returns |-> TRUE, value |-> NoneValue, acc |-> a, next |-> i]
    ELSE LET r == Append(a, MakeVideo(its[i], video_statistics.value))
         IN  IF i < Len(its)
             THEN [returns |-> FALSE, value |-> NoneValue, acc |-> r, next |-> i + 1]
             ELSE [returns |-> TRUE, value |-> Some(r), acc |-> r, next |-> i]

\* Variant: the list is an attribute of the cog, one for all invocations.
StoreLocal_Shared(f, p, v) == [q \in DOMAIN f |-> v]

\* The local list results of one call of search_youtube.
StoreLocal(f, p, v) == [f EXCEPT ![p] = v]

(***************************************************************************)
(* youtube, from the return of search_youtube on: the embeds it sends.     *)
(***************************************************************************)
\* Variant: "if results is not None".
Truthy_NotNone(r) == ~r.isNone

Truthy(r) == ~r.isNone /\ Len(r.value) > 0

\* Variant: enumerate without start=1.
Description_FromZero(r) == [i \in 1 .. Len(r) |-> FormatSearchResult(i - 1, r[i])]

Description(r) == [i \in 1 .. Len(r) |-> FormatSearchResult(i, r[i])]

SuccessEmbed(s, r) ==
    [colour |-> "dark_green",
     title |-> <<"YouTube results for ">> \o s,
     url |-> YOUTUBE_SEARCH_URL(QuotePlus(s)),
     description |-> Description(r)]

FailureEmbed ==
    [colour |-> "soft_red",
     title |-> "Something went wrong :/",
     description |-> "Sorry, we could not find a YouTube video."]

\* Variant: absence ends the command without a reply.
Youtube_SilentOnNone(s, r) ==
    IF Truthy(r) THEN <<SuccessEmbed(s, r.value)>>
    ELSE IF r.isNone THEN << >> ELSE <<FailureEmbed>>

\* Variant: absence and the empty list get different texts.
Youtube_DistinctFailures(s, r) ==
    IF Truthy(r) THEN <<SuccessEmbed(s, r.value)>>
    ELSE IF r.isNone
    THEN <<[FailureEmbed EXCEPT !.description = "The search failed."]>>
    ELSE <<FailureEmbed>>

Youtube(s, r) ==
    IF Truthy(r) THEN <<SuccessEmbed(s, r.value)>> ELSE <<FailureEmbed>>

\* Response contexts: "async with ... as response" enters one, and leaving
\* the block (by falling out, return or a raised error) exits it.
Enter(ctxs, c) == Append(ctxs, c)
\* Variant: the response is never released.
Exit_Leak(ctxs) == ctxs

Exit(ctxs) == SubSeq(ctxs, 1, Len(ctxs) - 1)

\* What the history keeps of a response: its status and whether the code
\* can decode its body.
SearchSummary(response) ==
    [status |-> response.status, decodable |-> SearchDecodable(response.body)]
StatsSummary(response) ==
    [status |-> response.status, decodable |-> StatisticsDecodable(response.body)]

LogSearchError(st) == [level |-> "error", what |-> "search", code |-> st]
LogStatsError(st) == [level |-> "error", what |-> "statistics", code |-> st]
LogAbort == [level |-> "warning", what |-> "aborting", code |-> 0]

(***************************************************************************)
(* State after the cog is loaded: no command has been invoked.             *)
(***************************************************************************)
Init ==
    /\ pc = [p \in Invocations |-> "idle"]
    /\ search = [p \in Invocations |-> << >>]
    /\ searchReceived = [p \in Invocations |-> << >>]
    /\ items = [p \in Invocations |-> << >>]
    /\ idx = [p \in Invocations |-> 0]
    /\ acc = [p \in Invocations |-> << >>]
    /\ results = [p \in Invocations |-> Unbound]
    /\ openCtx = [p \in Invocations |-> << >>]
    /\ statsIssued = [p \in Invocations |-> << >>]
    /\ statsReceived = [p \in Invocations |-> << >>]
    /\ sent = [p \in Invocations |-> << >>]
    /\ log = [p \in Invocations |-> << >>]

\* search_youtube returns r to youtube, which sends its reply and ends.
Return(p, r, newAcc, newLog) ==
    /\ results' = [results EXCEPT ![p] = r]
    /\ acc' = StoreLocal(acc, p, newAcc)
    /\ log' = [log EXCEPT ![p] = newLog]
    /\ openCtx' = [openCtx EXCEPT ![p] = << >>]
    /\ sent' = [sent EXCEPT ![p] = @ \o Youtube(search[p], r)]
    /\ pc' = [pc EXCEPT ![p] = "done"]

\* A KeyError or IndexError leaves every block and the command.
Raise(p) ==
    /\ openCtx' = [openCtx EXCEPT ![p] = << >>]
    /\ pc' = [pc EXCEPT ![p] = "raised"]
    /\ UNCHANGED <<results, acc, log, sent>>

\* The loop calls get_statistics for position i: the details request is
\* issued and the coroutine waits for its response.
CallGetStatistics(p, its, i, newAcc, ctxs) ==
    /\ idx' = [idx EXCEPT ![p] = i]
    /\ acc' = StoreLocal(acc, p, newAcc)
    /\ statsIssued' = [statsIssued EXCEPT ![p] = Append(@, RequestedId(its, i))]
    /\ openCtx' = [openCtx EXCEPT ![p] = Enter(ctxs, "statistics")]
    /\ pc' = [pc EXCEPT ![p] = "await_statistics"]
    /\ UNCHANGED <<results, log, sent>>

(***************************************************************************)
(* The command is dispatched: youtube calls search_youtube, which sets     *)
(* results = [] and issues the search request.                             *)
(***************************************************************************)
Invoke(p) ==
    /\ pc[p] = "idle"
    /\ \E s \in SearchTexts(p) : search' = [search EXCEPT ![p] = s]
    /\ acc' = StoreLocal(acc, p, << >>)
    /\ openCtx' = [openCtx EXCEPT ![p] = Enter(@, "search")]
    /\ pc' = [pc EXCEPT ![p] = "await_search"]
    /\ UNCHANGED <<searchReceived, items, idx, results, statsIssued, statsReceived,
                   sent, log>>

(***************************************************************************)
(* The search response arrives with a status other than 200.               *)
(***************************************************************************)
SearchFailed(p) ==
    /\ pc[p] = "await_search"
    /\ \E response \in SearchResponses :
        /\ NotSuccessful(response.status)
        /\ searchReceived' = [searchReceived EXCEPT ![p] = Append(@, SearchSummary(response))]
        /\ Return(p, NoneValue, acc[p],
                  Append(log[p], LogSearchError(response.status)))
    /\ UNCHANGED <<search, items, idx, statsIssued, statsReceived>>

(***************************************************************************)
(* The search response arrives with status 200 and its body is decoded:    *)
(* the loop starts, or (no items) search_youtube returns the empty list,   *)
(* or (no "items" key) a KeyError is raised.                               *)
(***************************************************************************)
SearchSucceeded(p) ==
    /\ pc[p] = "await_search"
    /\ \E response \in SearchResponses :
        LET video_snippet == response.body
        IN  /\ ~NotSuccessful(response.status)
            /\ searchReceived' = [searchReceived EXCEPT ![p] = Append(@, SearchSummary(response))]
            /\ IF ~SearchDecodable(video_snippet)
               THEN Raise(p) /\ UNCHANGED <<items, idx, statsIssued>>
               ELSE /\ items' = [items EXCEPT ![p] = video_snippet.items]
                    /\ IF video_snippet.items = << >>
                       THEN Return(p, Some(acc[p]), acc[p], log[p])
                            /\ UNCHANGED <<idx, statsIssued>>
                       ELSE CallGetStatistics(p, video_snippet.items, 1, acc[p],
                                              openCtx[p])
    /\ UNCHANGED <<search, statsReceived>>

(***************************************************************************)
(* The response of the details request arrives: get_statistics returns or  *)
(* raises, and the loop body runs up to the next request or the return.    *)
(***************************************************************************)
StatisticsResponded(p) ==
    /\ pc[p] = "await_statistics"
    /\ \E response \in StatsResponses(Last(statsIssued[p])) :
        LET got == GetStatistics(response)
            step == LoopBody(items[p], idx[p], acc[p], got.value)
        IN  /\ statsReceived' = [statsReceived EXCEPT ![p] = Append(@, StatsSummary(response))]
            /\ IF got.raised
               THEN Raise(p) /\ UNCHANGED <<idx, statsIssued>>
               ELSE IF step.returns
               THEN /\ Return(p, step.value, step.acc,
                              IF got.value.isNone
                              THEN log[p] \o <<LogStatsError(response.status), LogAbort>>
                              ELSE log[p])
                    /\ UNCHANGED <<idx, statsIssued>>
               ELSE CallGetStatistics(p, items[p], step.next, step.acc,
                                      Exit(openCtx[p]))
    /\ UNCHANGED <<search, searchReceived, items>>

Next ==
    \E p \in Invocations :
        \/ Invoke(p)
        \/ SearchFailed(p)
        \/ SearchSucceeded(p)
        \/ StatisticsResponded(p)

Spec == Init /\ [][Next]_vars

(***************************************************************************)
(* Vocabulary of the properties.                                           *)
(***************************************************************************)
Ended(p) == pc[p] \in {"done", "raised"}
NItems(p) == Len(items[p])

SearchAnswered(p) == searchReceived[p] # << >>
SearchNon200(p) == SearchAnswered(p) /\ searchReceived[p][1].status # 200
SearchMalformed(p) ==
    /\ SearchAnswered(p)
    /\ searchReceived[p][1].status = 200
    /\ ~searchReceived[p][1].decodable
SearchDecoded(p) ==
    /\ SearchAnswered(p)
    /\ searchReceived[p][1].status = 200
    /\ searchReceived[p][1].decodable

StatsGood(r) == r.status = 200 /\ r.decodable
StatsNon200At(p, k) == statsReceived[p][k].status # 200
StatsMalformedAt(p, k) ==
    statsReceived[p][k].status = 200 /\ ~statsReceived[p][k].decodable
StatsNon200(p) == \E k \in DOMAIN statsReceived[p] : StatsNon200At(p, k)
StatsMalformed(p) == \E k \in DOMAIN statsReceived[p] : StatsMalformedAt(p, k)
AllStatsGood(p) ==
    /\ Len(statsReceived[p]) = NItems(p)
    /\ \A k \in DOMAIN statsReceived[p] : StatsGood(statsReceived[p][k])

IsBound(v) == "unbound" \notin DOMAIN v
IsSuccess(e) == e.colour = "dark_green"

\* The line the reply is to carry at rank i for a search item.
ExpectedLine(i, item) ==
    [index |-> i,
     title |-> EscapeMarkdown(Unescape(item.snippet.title)),
     url |-> <<"https://www.youtube.com/watch?v=", item.id.videoId>>,
     username |-> EscapeMarkdown(Unescape(item.snippet.channelTitle)),
     view_count |-> ProviderStatistics[item.id.videoId].viewCount,
     like_count |-> ProviderStatistics[item.id.videoId].likeCount]

\* Ids of the first k items of the search response of p.
FirstIds(p, k) == [i \in 1 .. k |-> items[p][i].id.videoId]

\* Position of the first details response that is not a decodable 200, or
\* the number of items when there is none.
FirstBad(p) ==
    LET bad == { k \in DOMAIN statsReceived[p] : ~StatsGood(statsReceived[p][k]) }
    IN  IF bad = {} THEN NItems(p)
        ELSE CHOOSE k \in bad : \A j \in bad : k <= j

\* Response contexts open over all invocations.
OpenContexts ==
    Cardinality(UNION { { <<p, i>> : i \in DOMAIN openCtx[p] } : p \in Invocations })

(***************************************************************************)
(* C1.  When the search call returns 200 with N >= 1 items and all N       *)
(* statistics calls return 200 with a well-formed body, the one reply sent *)
(* is the success reply and its description is exactly N lines, the i-th   *)
(* carrying rank i and the id, title, channel and counts of the i-th item  *)
(* of the search response.                                                 *)
(***************************************************************************)
C1_AllLinesInOrder ==
    \A p \in Invocations :
        (SearchDecoded(p) /\ NItems(p) >= 1 /\ AllStatsGood(p)) =>
            /\ pc[p] = "done"
            /\ Len(sent[p]) = 1
            /\ IsSuccess(sent[p][1])
            /\ sent[p][1].description =
                   [i \in 1 .. NItems(p) |-> ExpectedLine(i, items[p][i])]

C1_Witness ==
    \E p \in Invocations :
        /\ pc[p] = "done" /\ NItems(p) = 2 /\ AllStatsGood(p)
        /\ Len(sent[p]) = 1
        /\ IsSuccess(sent[p][1])
        /\ sent[p][1].description[1].title = <<"L", "o", "&", "C">>
        /\ sent[p][1].description[2].title = <<"\\", "*", "b", "\\", "_">>
        /\ sent[p][1].description[2].username = <<"<", "b">>
        /\ sent[p][1].description[2].view_count = "7"

(***************************************************************************)
(* C2.  All or nothing: when a statistics call returns a status other than *)
(* 200, search_youtube returns None and the failure reply is sent; a list  *)
(* that search_youtube returns, and a success reply, holds every item of   *)
(* the search response, never a proper subset, and each Video in it        *)
(* carries the statistics of a successful statistics call for its own id.  *)
(***************************************************************************)
C2_AllOrNothing ==
    \A p \in Invocations :
        /\ StatsNon200(p) =>
              /\ pc[p] = "done"
              /\ results[p] = NoneValue
              /\ sent[p] = <<FailureEmbed>>
        /\ (IsBound(results[p]) /\ ~results[p].isNone) =>
              /\ Len(results[p].value) = NItems(p)
              /\ \A i \in 1 .. Len(results[p].value) :
                    LET v == results[p].value[i]
                    IN  /\ i <= NItems(p)
                        /\ v.id = items[p][i].id.videoId
                        /\ i <= Len(statsIssued[p]) /\ statsIssued[p][i] = v.id
                        /\ i <= Len(statsReceived[p])
                        /\ StatsGood(statsReceived[p][i])
                        /\ v.video_statistics =
                               [view_count |-> ProviderStatistics[v.id].viewCount,
                                like_count |-> ProviderStatistics[v.id].likeCount]
        /\ \A j \in DOMAIN sent[p] :
              IsSuccess(sent[p][j]) => Len(sent[p][j].description) = NItems(p)

C2_Witness ==
    \E p \in Invocations :
        /\ NItems(p) = 2
        /\ Len(statsReceived[p]) = 2
        /\ StatsGood(statsReceived[p][1])
        /\ StatsNon200At(p, 2)
        /\ Len(acc[p]) = 1
        /\ results[p] = NoneValue

(***************************************************************************)
(* C3.  When the search call returns a status other than 200,              *)
(* search_youtube returns None and no statistics request is issued at any  *)
(* point of the invocation.                                                *)
(***************************************************************************)
C3_SearchFailureIssuesNoStatistics ==
    \A p \in Invocations :
        SearchNon200(p) =>
            /\ pc[p] = "done"
            /\ results[p] = NoneValue
            /\ statsIssued[p] = << >>
            /\ statsReceived[p] = << >>
            /\ openCtx[p] = << >>

C3_Witness ==
    \E p \in Invocations :
        /\ SearchNon200(p)
        /\ searchReceived[p][1].status = 403
        /\ pc[p] = "done"
        /\ log[p] = <<LogSearchError(403)>>

(***************************************************************************)
(* C4.  As claimed: whatever the responses (200 or not, any number of      *)
(* items, well-formed or malformed body), an invocation that has ended has *)
(* sent exactly one reply.                                                 *)
(***************************************************************************)
C4_ExactlyOneReplyAlways ==
    \A p \in Invocations : Ended(p) => Len(sent[p]) = 1

(***************************************************************************)
(* C4, amended.  An invocation that ends by returning has sent exactly one *)
(* reply; one that ends because a 200 response had a body of an unexpected *)
(* shape (the KeyError or IndexError propagates out of the command) has    *)
(* sent none; an invocation ends in the second way exactly when it has     *)
(* received such a body; no invocation sends a reply before it ends, or    *)
(* two.                                                                    *)
(***************************************************************************)
C4_OneReplyUnlessRaised ==
    \A p \in Invocations :
        /\ pc[p] = "done" => Len(sent[p]) = 1
        /\ pc[p] # "done" => Len(sent[p]) = 0
        /\ pc[p] = "raised" <=> (SearchMalformed(p) \/ StatsMalformed(p))

C4_Witness ==
    \E p, q \in Invocations :
        /\ pc[p] = "raised" /\ StatsMalformed(p) /\ sent[p] = << >>
        /\ pc[q] = "done" /\ Len(sent[q]) = 1

(***************************************************************************)
(* C5.  The handler's outcome is chosen by what search_youtube returned:   *)
(* a non-empty list gives the success reply (every formatted line, and the *)
(* link to the web search) and not the failure reply; None or the empty    *)
(* list gives the fixed failure reply and no success reply.  No success    *)
(* reply with zero lines is ever sent.                                     *)
(***************************************************************************)
C5_TwoOutcomes ==
    \A p \in Invocations :
        /\ pc[p] = "done" =>
              LET r == results[p]
              IN  /\ (~r.isNone /\ Len(r.value) >= 1) =>
                        sent[p] =
                          << [colour |-> "dark_green",
                              title |-> <<"YouTube results for ">> \o search[p],
                              url |-> <<"https://www.youtube.com/results?search_query=">>
                                      \o QuotePlus(search[p]),
                              description |->
                                  [i \in 1 .. Len(r.value) |->
                                      FormatSearchResult(i, r.value[i])]] >>
                  /\ (r.isNone \/ Len(r.value) = 0) => sent[p] = <<FailureEmbed>>
        /\ \A j \in DOMAIN sent[p] :
              IsSuccess(sent[p][j]) => Len(sent[p][j].description) >= 1

C5_Witness ==
    \E p, q \in Invocations :
        /\ pc[p] = "done" /\ results[p] = Some(<< >>) /\ sent[p] = <<FailureEmbed>>
        /\ pc[q] = "done" /\ ~results[q].isNone /\ Len(results[q].value) = 2
        /\ IsSuccess(sent[q][1])
        /\ sent[q][1].url =
              <<"https://www.youtube.com/results?search_query=",
                "l", "o", "+", "f", "i", "+", Digits[q]>>

(***************************************************************************)
(* C6.  As claimed: each kind of failure (search status not 200, a         *)
(* statistics status not 200, zero search results, a malformed body on     *)
(* either endpoint) ends the invocation with the same fixed failure reply. *)
(***************************************************************************)
C6_EveryFailureSameReply ==
    \A p \in Invocations :
        (Ended(p) /\ (\/ SearchNon200(p)
                      \/ StatsNon200(p)
                      \/ (SearchDecoded(p) /\ NItems(p) = 0)
                      \/ SearchMalformed(p)
                      \/ StatsMalformed(p))) =>
            sent[p] = <<FailureEmbed>>

(***************************************************************************)
(* C6, amended.  A search status other than 200, a statistics status other *)
(* than 200 and zero search results all end the invocation with the same   *)
(* fixed failure reply; a malformed body on either endpoint ends it with a *)
(* raised error and no reply from the handler.                             *)
(***************************************************************************)
C6_FailureReplyUnlessMalformed ==
    \A p \in Invocations :
        /\ (\/ SearchNon200(p)
            \/ StatsNon200(p)
            \/ (SearchDecoded(p) /\ NItems(p) = 0)) =>
              (pc[p] = "done" /\ sent[p] = <<FailureEmbed>>)
        /\ (SearchMalformed(p) \/ StatsMalformed(p)) =>
              (pc[p] = "raised" /\ sent[p] = << >>)

C6_Witness ==
    \E p, q \in Invocations :
        /\ StatsNon200(p) /\ sent[p] = <<FailureEmbed>>
        /\ SearchDecoded(q) /\ NItems(q) = 0 /\ sent[q] = <<FailureEmbed>>

(***************************************************************************)
(* C7.  As claimed: in every state at most one HTTP request has been       *)
(* issued without its response context being closed, over all invocations. *)
(***************************************************************************)
C7_AtMostOneOpenRequest == OpenContexts <= 1

(***************************************************************************)
(* C7, amended.  Within one invocation the statistics requests run one at  *)
(* a time: at most one is outstanding, and the request for item i+1 is     *)
(* issued only when the response for item i has been received.  The search *)
(* response context stays open while they run, so an invocation holds up   *)
(* to two open response contexts (the search one and one statistics one),  *)
(* and interleaved invocations hold theirs at the same time.               *)
(***************************************************************************)
C7_StatisticsOneAtATime ==
    /\ \A p \in Invocations :
          /\ openCtx[p] \in { << >>, <<"search">>, <<"search", "statistics">> }
          /\ Len(statsIssued[p]) =
                Len(statsReceived[p]) + (IF pc[p] = "await_statistics" THEN 1 ELSE 0)
          /\ pc[p] = "await_statistics" <=> openCtx[p] = <<"search", "statistics">>
          /\ pc[p] = "await_search" <=> openCtx[p] = <<"search">>
    /\ OpenContexts <= 2 * MaxInvocations

C7_Witness ==
    \E p, q \in Invocations :
        /\ p # q
        /\ openCtx[p] = <<"search", "statistics">>
        /\ Len(statsReceived[p]) = 1
        /\ openCtx[q] = <<"search", "statistics">>
        /\ OpenContexts = 4

(***************************************************************************)
(* C8.  As claimed: an invocation whose search call succeeds with N items  *)
(* has, when it ends, issued exactly N statistics requests, one for each   *)
(* returned video id, whether the statistics calls succeed or fail.        *)
(***************************************************************************)
C8_OneRequestPerItem ==
    \A p \in Invocations :
        (Ended(p) /\ SearchDecoded(p)) => statsIssued[p] = FirstIds(p, NItems(p))

(***************************************************************************)
(* C8, amended.  An invocation whose search call succeeds with N items     *)
(* has, when it ends, issued one statistics request for each of the first  *)
(* k items, in order, where k = N when every statistics call returned 200  *)
(* with a well-formed body and k is otherwise the position of the first    *)
(* statistics call that did not.                                           *)
(***************************************************************************)
C8_RequestsUpToFirstFailure ==
    \A p \in Invocations :
        (Ended(p) /\ SearchDecoded(p)) =>
            /\ statsIssued[p] = FirstIds(p, FirstBad(p))
            /\ Len(statsReceived[p]) = FirstBad(p)

C8_Witness ==
    \E p \in Invocations :
        /\ Ended(p) /\ SearchDecoded(p)
        /\ NItems(p) = 2
        /\ StatsNon200At(p, 1)
        /\ statsIssued[p] = <<items[p][1].id.videoId>>

(***************************************************************************)
(* C9.  Invocations that interleave do not affect each other: the reply of *)
(* an invocation that has ended is the one its own search text and its own *)
(* search and statistics responses determine, and an invocation returns    *)
(* None only when one of its own calls returned a status other than 200.   *)
(***************************************************************************)
OwnReply(p) ==
    IF SearchMalformed(p) \/ StatsMalformed(p) THEN << >>
    ELSE IF SearchNon200(p) \/ StatsNon200(p) \/ NItems(p) = 0 THEN <<FailureEmbed>>
    ELSE << [colour |-> "dark_green",
             title |-> <<"YouTube results for ">> \o search[p],
             url |-> <<"https://www.youtube.com/results?search_query=">>
                     \o QuotePlus(search[p]),
             description |-> [i \in 1 .. NItems(p) |-> ExpectedLine(i, items[p][i])]] >>

C9_RequestScoped ==
    \A p \in Invocations :
        /\ Ended(p) => sent[p] = OwnReply(p)
        /\ ~Ended(p) => sent[p] = << >>
        /\ (IsBound(results[p]) /\ results[p].isNone) =>
              (SearchNon200(p) \/ StatsNon200(p))
        /\ search[p] \in SearchTexts(p) \cup {<< >>}

C9_Witness ==
    \E p, q \in Invocations :
        /\ p # q
        /\ pc[p] = "done" /\ StatsNon200(p) /\ results[p] = NoneValue
        /\ pc[q] = "done" /\ NItems(q) = 2 /\ IsSuccess(sent[q][1])
        /\ items[p] = items[q]

(***************************************************************************)
(* C10.  Within one invocation the statistics requests are issued in the   *)
(* order of the search items, and only after the search response was       *)
(* received with status 200; when the statistics call for item k is the    *)
(* first to return a status other than 200, exactly k requests have been   *)
(* issued and none for the items after k; the reply is sent only when the  *)
(* last issued statistics request has completed.                           *)
(***************************************************************************)
C10_ShortCircuitOrder ==
    \A p \in Invocations :
        /\ Len(statsIssued[p]) <= NItems(p)
        /\ statsIssued[p] = FirstIds(p, Len(statsIssued[p]))
        /\ statsIssued[p] # << >> => SearchDecoded(p)
        /\ \A k \in DOMAIN statsReceived[p] :
              StatsNon200At(p, k) =>
                  /\ Len(statsIssued[p]) = k
                  /\ \A j \in 1 .. (k - 1) : ~StatsNon200At(p, j)
        /\ sent[p] # << >> =>
              /\ Len(statsReceived[p]) = Len(statsIssued[p])
              /\ openCtx[p] = << >>

C10_Witness ==
    \E p \in Invocations :
        /\ NItems(p) = 2
        /\ statsIssued[p] = <<"abc123", "x_y">>
        /\ Len(statsReceived[p]) = 2
        /\ StatsNon200At(p, 2)
        /\ sent[p] = <<FailureEmbed>>

=============================================================================
